---- MODULE Spec2Model ----
(***************************************************************************)
(* A model of OpenRAG: the neighbour-expansion retriever                   *)
(* (openrag/query/query.py), the sentence segmentation and the chunk       *)
(* builder (openrag/text_chunking/text_chunking.py), the vector padder     *)
(* (openrag/chunk_vectorization/chunk_vectorization.py), the global        *)
(* indexer, the message loop and the indexing pass (main.py), the batched  *)
(* vector insert (openrag/vectordb/store_vectors.py) and the blob helpers  *)
(* (openrag/utils/azure_helper.py).                                        *)
(*                                                                         *)
(* Each component has its own specification (SpecFilter, SpecChunk, ...);  *)
(* the variables of the components a specification does not run stay at    *)
(* their idle values.                                                      *)
(***************************************************************************)
EXTENDS Integers, Sequences, FiniteSets, TLC

VARIABLES
    \* ---- filter_non_adjacent_indices (query.py) ----
    results,         \* the ranked hits, a sequence of [id, distance]
    max_neighbors,   \* the maximum result count K
    final_indices,   \* the accumulating result list of <<id, distance>>
    f_pc,            \* "idle" | "hit" | "adj" | "done"
    f_i,             \* position of the outer loop in results
    f_off,           \* position of the inner loop in [-1, 1]
    \* ---- chunk_sentences (text_chunking.py) ----
    sentences,       \* the sentence stream, a sequence of sentence records
    chunks,          \* the emitted chunks: [chunk, page, sentence_num, sentences_page]
    current_chunk,   \* the open chunk, a sequence of texts
    token_count,     \* the running token total of the open chunk
    c_i,             \* position of the loop in sentences
    c_pc,            \* "idle" | "loop" | "done"
    chunks_dict,     \* the returned dictionary, keyed chunk_1, chunk_2, ...
    emitted,         \* history: per emitted chunk, token_count at emission, the branch,
                     \* the position in sentences and the open chunk that follows
    \* ---- blob containers (azure_helper.py) ----
    chunked_dicts,   \* container "chunked-dicts": document -> chunk dictionary
    vectorized_dicts,\* container "vectorized-dicts": <<document, vector list>> in listing order
    \* ---- global indexing loop (main.py) and find_text_chunks (query.py) ----
    to_vectorize,    \* the documents still to be passed to vectorize_and_store
    vectorized_filenames, \* list_blobs("vectorized-dicts")
    all_vectors,
    all_sources,
    global_indexing, \* the index dictionary, entries in insertion order
    g_i,             \* position of the indexing loop in vectorized_filenames
    g_pc,            \* "idle" | "vectorize" | "index" | "query"
    found,           \* the last find_text_chunks call: [chunk_id, result]
    \* ---- store_vectors (store_vectors.py) ----
    s_vectors,       \* the vectors argument
    s_sources,       \* the sources argument
    inserted,        \* the data_chunk of every collection.insert call
    s_i,             \* the loop variable i
    s_pc,            \* "idle" | "insert" | "done"
    \* ---- the message loop (main.py) ----
    queue,           \* the messages of the queue not yet deleted (their content)
    document,        \* the variable document: None while unbound
    raw_pds_filenames, \* the files of the inner loop still to be processed
    processed_documents,
    m_pc,            \* "idle" | "receive" | "extract" | "chunk" | "vectorize" | "finish" | "exit" |
                     \* "indexing" | "build" | "drop" | "store" | "settings" |
                     \* "global_indexing" | "patch" | "done" | "aborted"
    extracted_blobs, \* container "extracted-dicts": file -> "absent" | "stale" | "fresh"
    chunked_blobs,   \* container "chunked-dicts", likewise
    vectorized_blobs,\* container "vectorized-dicts", likewise
    m_failed,        \* history: an embedding call or a put failed for the current message
    processed_failed,\* history: m_failed when the entry of processed_documents was added
    m_status,        \* history: the outcome of the metadata request of the current message
    processed_from,  \* history: per entry of processed_documents, m_status and the
                     \* document whose files were processed
    \* ---- the indexing pass (main.py) ----
    collection_name,
    settings_container, \* container "settings": settings.json and global_indexing.json,
                     \* each "absent" | "stale" (of the previous pass) | "fresh" (of this pass)
    previous_collection, \* the current_collection a stale settings.json names
    collections,     \* the vector store: collection -> "absent" | "older" | "stale" | "partial" | "fresh"
    patched,         \* the documents patched to state "available"
    \* ---- overlapping_chunking (text_chunking.py) ----
    pages,           \* the pages argument: a sequence of [text, page]
    all_sentences,   \* the sentence records collected so far
    p_i,             \* position of the loop in pages
    p_pc,            \* "idle" | "segment" | "chunking"
    \* ---- pad_vector (chunk_vectorization.py) ----
    v_input,         \* history: the vector as it was passed
    vector,          \* the list object passed as vector
    target_dim,
    padded,          \* the returned value
    v_pc             \* "idle" | "call" | "returned"

filterVars == <<results, max_neighbors, final_indices, f_pc, f_i, f_off>>

chunkVars == <<sentences, chunks, current_chunk, token_count, c_i, c_pc,
               chunks_dict, emitted>>

indexVars == <<chunked_dicts, vectorized_dicts, to_vectorize,
               vectorized_filenames, all_vectors, all_sources,
               global_indexing, g_i, g_pc, found>>

storeVars == <<s_vectors, s_sources, inserted, s_i, s_pc>>

tailVars == <<collection_name, settings_container, previous_collection,
              collections, patched>>

mainVars == <<queue, document, raw_pds_filenames, processed_documents, m_pc,
              extracted_blobs, chunked_blobs, vectorized_blobs, m_failed,
              processed_failed, m_status, processed_from, tailVars>>

segmentVars == <<pages, all_sentences, p_i, p_pc>>

padVars == <<v_input, vector, target_dim, padded, v_pc>>

vars == <<filterVars, chunkVars, indexVars, storeVars, mainVars, segmentVars, padVars>>

\* what the actions of one component leave alone
filterOthers == <<chunkVars, indexVars, storeVars, mainVars, segmentVars, padVars>>

chunkOthers == <<filterVars, indexVars, storeVars, mainVars, segmentVars, padVars>>

indexOthers == <<filterVars, chunkVars, storeVars, mainVars, segmentVars, padVars>>

storeOthers == <<filterVars, chunkVars, indexVars, mainVars, segmentVars, padVars>>

mainOthers == <<filterVars, chunkVars, indexVars, storeVars, segmentVars, padVars>>

\* ------------------------------------------------------------------ helpers

Min(a, b) == IF a <= b THEN a ELSE b

Max(a, b) == IF a >= b THEN a ELSE b

Range(s) == {s[i] : i \in 1..Len(s)}

\* ------------------------------------------------------------------ bounds

MaxHits == 3

MaxId == 2

MaxK == 4

MaxSentences == 4

MaxDocs == 3

\* the expected_dim argument of vectorize_and_store (main.py passes 3072),
\* scaled to the length of the modelled embeddings
ExpectedDim == 4

\* store_vectors is run on up to MaxBatches full batches plus a remainder of
\* up to MaxRemainder vectors
MaxBatches == 2

MaxRemainder == 12

MaxMessages == 2

WordLen == 3

\* ------------------------------------------------------------------ idle

FilterIdle ==
    /\ results = <<>>
    /\ max_neighbors = 0
    /\ final_indices = <<>>
    /\ f_pc = "idle"
    /\ f_i = 0
    /\ f_off = 0

ChunkIdle ==
    /\ sentences = <<>>
    /\ chunks = <<>>
    /\ current_chunk = <<>>
    /\ token_count = 0
    /\ c_i = 0
    /\ c_pc = "idle"
    /\ chunks_dict = <<>>
    /\ emitted = <<>>

IndexIdle ==
    /\ chunked_dicts = <<>>
    /\ vectorized_dicts = <<>>
    /\ to_vectorize = <<>>
    /\ vectorized_filenames = <<>>
    /\ all_vectors = <<>>
    /\ all_sources = <<>>
    /\ global_indexing = <<>>
    /\ g_i = 0
    /\ g_pc = "idle"
    /\ found = <<>>

MainIdle ==
    /\ queue = <<>>
    /\ document = <<>>
    /\ raw_pds_filenames = <<>>
    /\ processed_documents = <<>>
    /\ m_pc = "idle"
    /\ extracted_blobs = <<>>
    /\ chunked_blobs = <<>>
    /\ vectorized_blobs = <<>>
    /\ m_failed = FALSE
    /\ processed_failed = <<>>
    /\ m_status = ""
    /\ processed_from = <<>>
    /\ collection_name = ""
    /\ settings_container = <<>>
    /\ previous_collection = ""
    /\ collections = <<>>
    /\ patched = <<>>

SegmentIdle ==
    /\ pages = <<>>
    /\ all_sentences = <<>>
    /\ p_i = 0
    /\ p_pc = "idle"

PadIdle ==
    /\ v_input = <<>>
    /\ vector = <<>>
    /\ target_dim = 0
    /\ padded = <<>>
    /\ v_pc = "idle"

StoreIdle ==
    /\ s_vectors = <<>>
    /\ s_sources = <<>>
    /\ inserted = <<>>
    /\ s_i = 0
    /\ s_pc = "idle"

\* =========================================================================
\* filter_non_adjacent_indices
\* =========================================================================

\* the marker of an entry added only as a neighbour: the empty string
Unscored == ""

\* the distances a search can report, in increasing order
DistanceValues == <<"0.1", "0.2", "0.3", "0.4">>

\* hit IDs: a small range from 0 and the two IDs of the documented example
HitIds == (0..MaxId) \cup {10, 20}

\* ranked hits: distinct IDs, strictly increasing distance
IsRanked(h) ==
    /\ \A i, j \in 1..Len(h) : i # j => h[i].id # h[j].id
    /\ \A i \in 1..Len(h) : \E d \in 1..Len(DistanceValues) :
          /\ h[i].distance = DistanceValues[d]
          /\ \A j \in 1..Len(h) : \A e \in 1..Len(DistanceValues) :
                (i < j /\ h[j].distance = DistanceValues[e]) => d < e

HitSeqs ==
    LET Hit == [id : HitIds, distance : Range(DistanceValues)]
    IN  {h \in UNION {[1..n -> Hit] : n \in 0..MaxHits} : IsRanked(h)}

\* [idx[0] for idx in final_indices]
Ids(final) == {final[i][1] : i \in 1..Len(final)}

\* the offsets of the inner loop
Offsets == <<-1, 1>>

AdjacentAdmissible_NoSignCheck(adjacent_index, final) ==
    adjacent_index \notin Ids(final)

\* the condition of line 57
AdjacentAdmissible(adjacent_index, final) ==
    adjacent_index >= 0 /\ adjacent_index \notin Ids(final)

FilterInit ==
    /\ ChunkIdle /\ IndexIdle /\ StoreIdle /\ MainIdle /\ SegmentIdle /\ PadIdle
    /\ results \in HitSeqs
    /\ max_neighbors \in 1..MaxK
    /\ final_indices = <<>>
    /\ f_pc = "hit"
    /\ f_i = 1
    /\ f_off = 0

\* the outer loop is exhausted: return final_indices
FilterReturn ==
    /\ UNCHANGED filterOthers
    /\ f_pc = "hit"
    /\ f_i > Len(results)
    /\ f_pc' = "done"
    /\ UNCHANGED <<results, max_neighbors, final_indices, f_i, f_off>>

\* a hit whose ID is already in the result list is passed over
FilterSkipHit ==
    /\ UNCHANGED filterOthers
    /\ f_pc = "hit"
    /\ f_i <= Len(results)
    /\ results[f_i].id \in Ids(final_indices)
    /\ f_i' = f_i + 1
    /\ UNCHANGED <<results, max_neighbors, final_indices, f_pc, f_off>>

\* a hit not yet present is appended with its distance; the outer loop
\* breaks when the list has reached max_neighbors
FilterAppendHit ==
    /\ UNCHANGED filterOthers
    /\ f_pc = "hit"
    /\ f_i <= Len(results)
    /\ results[f_i].id \notin Ids(final_indices)
    /\ final_indices' =
          Append(final_indices, <<results[f_i].id, results[f_i].distance>>)
    /\ IF Len(final_indices') >= max_neighbors
          THEN f_pc' = "done" /\ f_off' = f_off
          ELSE f_pc' = "adj" /\ f_off' = 1
    /\ UNCHANGED <<results, max_neighbors, f_i>>

\* one iteration of the inner loop over [-1, 1]; its break leaves the inner
\* loop only, and the outer loop goes on with the next hit
FilterAdjacent ==
    /\ UNCHANGED filterOthers
    /\ f_pc = "adj"
    /\ LET adjacent_index == results[f_i].id + Offsets[f_off]
           admitted == AdjacentAdmissible(adjacent_index, final_indices)
           appended == IF admitted
                          THEN Append(final_indices, <<adjacent_index, Unscored>>)
                          ELSE final_indices
           inner_break == admitted /\ Len(appended) >= max_neighbors
       IN  /\ final_indices' = appended
           /\ IF inner_break \/ f_off = Len(Offsets)
                 THEN f_pc' = "hit" /\ f_i' = f_i + 1 /\ f_off' = 0
                 ELSE f_pc' = "adj" /\ f_i' = f_i /\ f_off' = f_off + 1
    /\ UNCHANGED <<results, max_neighbors>>

FilterNext ==
    \/ FilterReturn
    \/ FilterSkipHit
    \/ FilterAppendHit
    \/ FilterAdjacent

SpecFilter == FilterInit /\ [][FilterNext]_vars

\* ---- claims about filter_non_adjacent_indices ----

\* C1: the result list never holds more than max_neighbors entries
C1_LengthAtMostK == Len(final_indices) <= max_neighbors

HitWithId(id) == CHOOSE i \in 1..Len(results) : results[i].id = id

\* C6: in the returned list every entry whose ID is the ID of an input hit
\* carries that hit's distance, and an entry is unscored only if its ID is
\* the ID of no input hit
C6_HitsKeepTheirDistance ==
    f_pc = "done" =>
        \A k \in 1..Len(final_indices) :
            LET e == final_indices[k]
                is_hit == \E i \in 1..Len(results) : results[i].id = e[1]
            IN  /\ is_hit => e[2] = results[HitWithId(e[1])].distance
                /\ e[2] = Unscored => ~is_hit

\* C7: the result list holds no negative ID and no ID twice
C7_NoNegativeNoDuplicate ==
    /\ \A k \in 1..Len(final_indices) : final_indices[k][1] >= 0
    /\ \A k, l \in 1..Len(final_indices) :
          k # l => final_indices[k][1] # final_indices[l][1]

\* a finished run with a hit of ID 0 and two hits that are numeric
\* neighbours of each other, where neighbours were added
C7_Witness ==
    /\ f_pc = "done"
    /\ \E i \in 1..Len(results) : results[i].id = 0
    /\ \E i, j \in 1..Len(results) :
          results[i].id - results[j].id \in {1, 2}
    /\ \E k \in 1..Len(final_indices) : final_indices[k][2] = Unscored
    /\ \E k \in 1..Len(final_indices) :
          final_indices[k][1] = 0 /\ final_indices[k][2] # Unscored

\* the neighbours id-1, id+1 of the scored entry at position p that are
\* admissible and not present up to p
ExpectedNeighbors(final, p) ==
    LET h == final[p][1]
        before == Ids(SubSeq(final, 1, p))
        Fresh(a) == a >= 0 /\ a \notin before
    IN  SelectSeq(<<h - 1, h + 1>>, Fresh)

\* the position of the next scored entry after p, or one past the end
NextScored(final, p) ==
    LET later == {q \in (p + 1)..Len(final) : final[q][2] # Unscored}
    IN  IF later = {} THEN Len(final) + 1
        ELSE CHOOSE q \in later : \A r \in later : q <= r

IsPrefix(s, t) == Len(s) <= Len(t) /\ s = SubSeq(t, 1, Len(s))

ExampleHits ==
    <<[id |-> 10, distance |-> "0.1"], [id |-> 20, distance |-> "0.3"]>>

\* C8: the returned list is in discovery order: scored entries in the order
\* of the input hits, each immediately followed by its not-yet-present
\* neighbours, id-1 before id+1, before the next hit is considered (only the
\* end of the list may cut the neighbours short); and the documented example
C8_DiscoveryOrder ==
    f_pc = "done" =>
        /\ \A k, l \in 1..Len(final_indices) :
              (k < l /\ final_indices[k][2] # Unscored
                     /\ final_indices[l][2] # Unscored)
              => HitWithId(final_indices[k][1]) < HitWithId(final_indices[l][1])
        /\ Len(final_indices) > 0 => final_indices[1][2] # Unscored
        /\ \A p \in 1..Len(final_indices) :
              final_indices[p][2] # Unscored =>
                 LET nxt == NextScored(final_indices, p)
                     seg == SubSeq(final_indices, p + 1, nxt - 1)
                     segIds == [q \in 1..Len(seg) |-> seg[q][1]]
                     expected == ExpectedNeighbors(final_indices, p)
                 IN  \/ segIds = expected
                     \/ nxt = Len(final_indices) + 1 /\ IsPrefix(segIds, expected)
        /\ (results = ExampleHits /\ max_neighbors = 4) =>
              final_indices = <<<<10, "0.1">>, <<9, Unscored>>,
                                <<11, Unscored>>, <<20, "0.3">>>>

\* =========================================================================
\* chunk_sentences
\* =========================================================================

\* Configuration Constants
OVERLAP_SIZE_TOKENS == 40

CHUNK_SIZE_TOKENS_MIN == 126 + OVERLAP_SIZE_TOKENS

CHUNK_SIZE_TOKENS_MAX == 256

\* A text is a sequence of one-character strings.  The tokenizer is the
\* tiktoken library; it is modelled as one token per word (maximal run of
\* non-space characters).
num_tokens_in_string(string) ==
    Cardinality({i \in 1..Len(string) :
                    string[i] # " " /\ (i = 1 \/ string[i - 1] = " ")})

\* ' '.join(texts)
RECURSIVE Join(_)
Join(texts) ==
    IF Len(texts) = 0 THEN <<>>
    ELSE IF Len(texts) = 1 THEN texts[1]
    ELSE texts[1] \o <<" ">> \o Join(Tail(texts))

\* str.strip()
Strip(s) ==
    IF \A i \in 1..Len(s) : s[i] = " " THEN <<>>
    ELSE LET first == CHOOSE i \in 1..Len(s) :
                         s[i] # " " /\ \A j \in 1..(i - 1) : s[j] = " "
             last == CHOOSE i \in 1..Len(s) :
                         s[i] # " " /\ \A j \in (i + 1)..Len(s) : s[j] = " "
         IN  SubSeq(s, first, last)

\* s[k:] for a 0-based k that may be negative
SliceFrom(s, k) ==
    LET start == IF k >= 0 THEN Min(k, Len(s)) ELSE Max(Len(s) + k, 0)
    IN  SubSeq(s, start + 1, Len(s))

\* the overlap text of get_overlap: from the nearest space at or before
\* len - overlap_size * 3, stripped
OverlapText(chunk_texts, overlap_size) ==
    LET fluent_text == Join(chunk_texts)
        char_index0 == Len(fluent_text) - overlap_size * 3
        spaces == {k \in 1..char_index0 : fluent_text[k + 1] = " "}
        char_index == IF char_index0 <= 0 \/ spaces = {}
                         THEN Min(char_index0, 0)
                         ELSE CHOOSE k \in spaces :
                                 \A m \in (k + 1)..char_index0 : fluent_text[m + 1] # " "
    IN  Strip(SliceFrom(fluent_text, char_index))

\* get_overlap: the new open chunk and its token count
get_overlap(chunk_texts, overlap_size) ==
    LET overlap == OverlapText(chunk_texts, overlap_size)
    IN  [chunk |-> <<overlap>>, tokens |-> num_tokens_in_string(overlap)]

\* sentence_text[:-words//2] and sentence_text[-words//2:]
FirstPart(sentence_text) ==
    SubSeq(sentence_text, 1, Len(sentence_text) \div 2)

SecondPart(sentence_text) ==
    SubSeq(sentence_text, Len(sentence_text) \div 2 + 1, Len(sentence_text))

\* f"chunk_{i}"
ChunkKey(i) == <<"chunk_", i>>

\* lines 109-110: the dictionary built from the emitted chunks
ChunksDict(cs) ==
    [key \in {ChunkKey(i) : i \in 1..Len(cs)} |->
        LET chunk == cs[key[2]]
        IN  [text |-> Join(chunk.chunk), page |-> chunk.page,
             sentence_num |-> chunk.sentence_num,
             sentences_page |-> chunk.sentences_page]]

\* ---- the sentence streams the model draws ----

Letters == <<"a", "b", "c", "d", "e", "f", "g", "h">>

\* a sentence of w words of WordLen letters, all of one letter
WordsText(letter, w) ==
    IF w = 0 THEN <<>>
    ELSE [k \in 1..(w * (WordLen + 1) - 1) |->
             IF k % (WordLen + 1) = 0 THEN " " ELSE letter]

\* sentence lengths in words: below the minimum, inside the window, above
\* the maximum
SentenceWords == {60, 170, 260}

\* the stream for the given word counts: the first sentence is alone on
\* page 1, the others are on page 2
Stream(ws) ==
    [i \in 1..Len(ws) |->
        [text |-> WordsText(Letters[i], ws[i]),
         page |-> IF i = 1 THEN 1 ELSE 2,
         sentence_num |-> IF i = 1 THEN 1 ELSE i - 1,
         sentences_page |-> IF i = 1 THEN 1 ELSE Len(ws) - 1]]

Streams ==
    {Stream(ws) : ws \in UNION {[1..n -> SentenceWords] : n \in 1..MaxSentences}}

ChunkInit ==
    /\ FilterIdle /\ IndexIdle /\ StoreIdle /\ MainIdle /\ SegmentIdle /\ PadIdle
    /\ sentences \in Streams
    /\ chunks = <<>>
    /\ current_chunk = <<>>
    /\ token_count = 0
    /\ c_i = 1
    /\ c_pc = "loop"
    /\ chunks_dict = <<>>
    /\ emitted = <<>>

\* lines 87-88: the sentence is appended and counted
Folded == Append(current_chunk, sentences[c_i].text)

FoldedTokens == token_count + num_tokens_in_string(sentences[c_i].text)

EmittedChunk(texts) ==
    [chunk |-> texts, page |-> sentences[c_i].page,
     sentence_num |-> sentences[c_i].sentence_num,
     sentences_page |-> sentences[c_i].sentences_page]

\* neither branch: the sentence stays in the open chunk
ChunkAccumulate ==
    /\ UNCHANGED chunkOthers
    /\ c_pc = "loop"
    /\ c_i <= Len(sentences)
    /\ FoldedTokens < CHUNK_SIZE_TOKENS_MIN
    /\ current_chunk' = Folded
    /\ token_count' = FoldedTokens
    /\ c_i' = c_i + 1
    /\ UNCHANGED <<sentences, chunks, c_pc, chunks_dict, emitted>>

\* lines 91-94: the running total is inside the window
ChunkEmit ==
    /\ UNCHANGED chunkOthers
    /\ c_pc = "loop"
    /\ c_i <= Len(sentences)
    /\ CHUNK_SIZE_TOKENS_MIN <= FoldedTokens
    /\ FoldedTokens <= CHUNK_SIZE_TOKENS_MAX
    /\ LET texts == Append(Folded, sentences[c_i].text)
           next == get_overlap(texts, OVERLAP_SIZE_TOKENS)
       IN  /\ chunks' = Append(chunks, EmittedChunk(texts))
           /\ emitted' = Append(emitted, [tokens |-> FoldedTokens, branch |-> "window",
                                           at |-> c_i, carried |-> next.chunk])
           /\ current_chunk' = next.chunk
           /\ token_count' = next.tokens
    /\ c_i' = c_i + 1
    /\ UNCHANGED <<sentences, c_pc, chunks_dict>>

\* lines 95-107: the running total is above the maximum
ChunkSplit ==
    /\ UNCHANGED chunkOthers
    /\ c_pc = "loop"
    /\ c_i <= Len(sentences)
    /\ FoldedTokens > CHUNK_SIZE_TOKENS_MAX
    /\ LET texts == Append(Folded, FirstPart(sentences[c_i].text))
           next == get_overlap(texts, OVERLAP_SIZE_TOKENS)
           new_chunk == Append(next.chunk, SecondPart(sentences[c_i].text))
       IN  /\ chunks' = Append(chunks, EmittedChunk(texts))
           /\ emitted' = Append(emitted, [tokens |-> FoldedTokens, branch |-> "split",
                                           at |-> c_i, carried |-> new_chunk])
           /\ current_chunk' = new_chunk
           /\ token_count' = next.tokens + num_tokens_in_string(Join(new_chunk))
    /\ c_i' = c_i + 1
    /\ UNCHANGED <<sentences, c_pc, chunks_dict>>

\* lines 109-111: the stream has ended; the dictionary is built and returned
ChunkReturn ==
    /\ UNCHANGED chunkOthers
    /\ c_pc = "loop"
    /\ c_i > Len(sentences)
    /\ chunks_dict' = ChunksDict(chunks)
    /\ c_pc' = "done"
    /\ UNCHANGED <<sentences, chunks, current_chunk, token_count, c_i, emitted>>

ChunkNext ==
    \/ ChunkAccumulate
    \/ ChunkEmit
    \/ ChunkSplit
    \/ ChunkReturn

SpecChunk == ChunkInit /\ [][ChunkNext]_vars

\* ---- claims about chunk_sentences ----

\* C2: every emitted chunk other than the last one has a token count at
\* emission time within [CHUNK_SIZE_TOKENS_MIN, CHUNK_SIZE_TOKENS_MAX]
C2_NonFinalChunksInWindow ==
    c_pc = "done" =>
        \A k \in 1..(Len(emitted) - 1) :
            /\ CHUNK_SIZE_TOKENS_MIN <= emitted[k].tokens
            /\ emitted[k].tokens <= CHUNK_SIZE_TOKENS_MAX

\* the open chunk holds a sentence (or sentence half) folded after the last
\* emission: it is non-empty and not merely the overlap seed
HoldsFolded ==
    /\ current_chunk # <<>>
    /\ ~(Len(current_chunk) = 1 /\ emitted # <<>>)

\* C3: when the stream ends while the open chunk holds a sentence folded
\* after the last emission, that open chunk is the final chunk of the result
C3_FinalChunkEmitted ==
    (c_pc = "done" /\ HoldsFolded) =>
        /\ Len(chunks) >= 1
        /\ chunks_dict[ChunkKey(Len(chunks))].text = Join(current_chunk)

\* the joined text of the chunk emitted last
LastEmittedText(cs) == Join(cs[Len(cs)].chunk)

\* C13: a split step emits the text accumulated before the sentence followed
\* by only the first half of the sentence, opens the next chunk with the
\* overlap seed of the emitted chunk followed by the second half, and the
\* halves, cut at the character midpoint, concatenate back to the sentence
C13_SplitHalves ==
    [][ChunkSplit =>
          LET sentence_text == sentences[c_i].text
              first == FirstPart(sentence_text)
              second == SecondPart(sentence_text)
          IN  /\ LastEmittedText(chunks') = Join(Append(current_chunk, first))
              /\ current_chunk' =
                    <<OverlapText(chunks'[Len(chunks')].chunk, OVERLAP_SIZE_TOKENS),
                      second>>
              /\ Len(first) = Len(sentence_text) \div 2
              /\ first \o second = sentence_text]_vars

\* C14: after every emission the running token total of the new open chunk
\* is the token count of that chunk's own text: of the overlap seed after an
\* in-window emission, of the overlap seed plus the second half after a
\* split, the tokens of the seed counted once
C14_TokenCountOfOpenChunk ==
    [][(ChunkEmit \/ ChunkSplit) =>
          token_count' = num_tokens_in_string(Join(current_chunk'))]_vars

\* the texts the open chunk started with after the last emission, and the
\* sentences folded since, the current one included
Carried == IF emitted = <<>> THEN <<>> ELSE emitted[Len(emitted)].carried

FoldedSince ==
    LET start == IF emitted = <<>> THEN 1 ELSE emitted[Len(emitted)].at + 1
    IN  [k \in 1..(c_i - start + 1) |-> sentences[start + k - 1].text]

\* C15: a chunk emitted inside the window has as text what the previous
\* emission carried over followed by the sentences folded since, each once
\* and in input order, joined by single spaces, and has the page,
\* sentence_num and sentences_page of the last folded sentence
C15_WindowChunkIsSpan ==
    [][ChunkEmit =>
          LET chunk == chunks'[Len(chunks')]
          IN  /\ Join(chunk.chunk) = Join(Carried \o FoldedSince)
              /\ chunk.page = sentences[c_i].page
              /\ chunk.sentence_num = sentences[c_i].sentence_num
              /\ chunk.sentences_page = sentences[c_i].sentences_page]_vars

\* =========================================================================
\* vectorize_and_store, the global indexing loop, find_text_chunks
\* =========================================================================

DocNames == <<"a", "b", "c", "d", "e">>

\* the blob name of a document and vectorized_filename.split(".")[0]
BlobName(d) == <<d, "json">>

Stem(filename) == filename[1]

\* the text of chunk j of document d: j times the document's letter
ChunkText(d, j) == [k \in 1..j |-> d]

\* the chunks chunk_sentences emitted for a document with n chunks
DocChunks(d, n) ==
    [j \in 1..n |-> [chunk |-> <<ChunkText(d, j)>>, page |-> j,
                     sentence_num |-> 1, sentences_page |-> 1]]

\* the numbers of chunks a document can have
VectorCounts == {0, 2, 3, 5}

\* the embedding backend: an injective function of the text
Vectorize(text) == <<"v">> \o text

pad_vector_Truncating(v, d) ==
    [k \in 1..d |-> IF k <= Len(v) THEN v[k] ELSE "0.0"]

pad_vector(v, d) ==
    LET padding_length == d - Len(v)
    IN  IF padding_length > 0
           THEN v \o [k \in 1..padding_length |-> "0.0"]
           ELSE v

\* chunks.values(): the values in the order of the keys chunk_1, chunk_2, ...
DictValues(dict) ==
    [i \in 1..Cardinality(DOMAIN dict) |-> dict[ChunkKey(i)]]

\* the vector_data of vectorize_and_store
VectorData(dict, expected_dim) ==
    LET values == DictValues(dict)
    IN  [i \in 1..Len(values) |->
            pad_vector(Vectorize(values[i].text), expected_dim)]

\* dict[key] = value on a dictionary kept as a sequence in insertion order
DictSet(dict, key, value) ==
    IF \E i \in 1..Len(dict) : dict[i].key = key
       THEN [i \in 1..Len(dict) |->
                IF dict[i].key = key THEN [key |-> key, value |-> value]
                ELSE dict[i]]
       ELSE Append(dict, [key |-> key, value |-> value])

\* the result of a failed lookup and of dict.get on a missing key
None == <<>>

Some(x) == <<x>>

\* dict.get(key)
DictGet(dict, key) == IF key \in DOMAIN dict THEN Some(dict[key]) ELSE None

\* the key find_text_chunks looks up: f"chunk_{index_in_file}"
LookupKey(index_in_file) == ChunkKey(index_in_file)

\* find_text_chunks: the first entry whose range holds chunk_id
find_text_chunks(chunk_id, data_dict, blobs) ==
    LET hits == {i \in 1..Len(data_dict) :
                    /\ data_dict[i].value.start <= chunk_id
                    /\ chunk_id <= data_dict[i].value.end}
    IN  IF hits = {} THEN None
        ELSE LET i == CHOOSE h \in hits : \A m \in hits : h <= m
                 index_in_file == chunk_id - data_dict[i].value.start
                 data_dict_file == blobs[data_dict[i].key]
             IN  DictGet(data_dict_file, LookupKey(index_in_file))

IndexInit ==
    /\ FilterIdle /\ ChunkIdle /\ StoreIdle /\ MainIdle /\ SegmentIdle /\ PadIdle
    /\ \E n \in 1..MaxDocs : \E counts \in [1..n -> VectorCounts] :
          /\ chunked_dicts =
                [d \in {DocNames[i] : i \in 1..n} |->
                    ChunksDict(DocChunks(d,
                        counts[CHOOSE i \in 1..n : DocNames[i] = d]))]
          /\ to_vectorize = [i \in 1..n |-> DocNames[i]]
    /\ vectorized_dicts = <<>>
    /\ vectorized_filenames = <<>>
    /\ all_vectors = <<>>
    /\ all_sources = <<>>
    /\ global_indexing = <<>>
    /\ g_i = 0
    /\ g_pc = "vectorize"
    /\ found = <<>>

\* vectorize_and_store(file_name, 'ada', expected_dim) for the next
\* document: an embedding call may raise, and upload_blob may fail and
\* return False; in both cases the container keeps what it held
VectorizeAndStore ==
    /\ UNCHANGED indexOthers
    /\ g_pc = "vectorize"
    /\ to_vectorize # <<>>
    /\ LET file_name == Head(to_vectorize)
           vector_data == VectorData(chunked_dicts[file_name], ExpectedDim)
       IN  \E outcome \in {"stored", "embedding raised", "upload failed"} :
              vectorized_dicts' =
                 IF outcome = "stored"
                    THEN DictSet(vectorized_dicts, BlobName(file_name), vector_data)
                    ELSE vectorized_dicts
    /\ to_vectorize' = Tail(to_vectorize)
    /\ UNCHANGED <<chunked_dicts, vectorized_filenames, all_vectors,
                   all_sources, global_indexing, g_i, g_pc, found>>

\* line 89: list_blobs("vectorized-dicts"), and the loop starts
ListBlobs ==
    /\ UNCHANGED indexOthers
    /\ g_pc = "vectorize"
    /\ to_vectorize = <<>>
    /\ vectorized_filenames' =
          [i \in 1..Len(vectorized_dicts) |-> vectorized_dicts[i].key]
    /\ g_i' = 1
    /\ g_pc' = "index"
    /\ UNCHANGED <<chunked_dicts, vectorized_dicts, to_vectorize, all_vectors,
                   all_sources, global_indexing, found>>

\* the blob of a name in the container
BlobData(container, name) ==
    container[CHOOSE i \in 1..Len(container) : container[i].key = name].value

IndexData_EndExclusive(vectors, before) ==
    [len |-> Len(vectors), start |-> before, end |-> before + Len(vectors)]

\* index_data of lines 97-105
IndexData(vectors, before) ==
    [len |-> Len(vectors), start |-> before, end |-> before + Len(vectors) - 1]

\* lines 94-107: one iteration of the indexing loop
IndexDocument ==
    /\ UNCHANGED indexOthers
    /\ g_pc = "index"
    /\ g_i <= Len(vectorized_filenames)
    /\ LET vectorized_filename == vectorized_filenames[g_i]
           source == Stem(vectorized_filename)
           vectors == BlobData(vectorized_dicts, BlobName(source))
       IN  /\ all_vectors' = all_vectors \o vectors
           /\ all_sources' = all_sources \o [k \in 1..Len(vectors) |-> source]
           /\ global_indexing' =
                 DictSet(global_indexing, source,
                         IndexData(vectors, Len(all_vectors)))
    /\ g_i' = g_i + 1
    /\ UNCHANGED <<chunked_dicts, vectorized_dicts, to_vectorize,
                   vectorized_filenames, g_pc, found>>

\* the indexing loop has ended; the index is what queries read
IndexDone ==
    /\ UNCHANGED indexOthers
    /\ g_pc = "index"
    /\ g_i > Len(vectorized_filenames)
    /\ g_pc' = "query"
    /\ UNCHANGED <<chunked_dicts, vectorized_dicts, to_vectorize,
                   vectorized_filenames, all_vectors, all_sources,
                   global_indexing, g_i, found>>

\* a query calls find_text_chunks with an ID the search returned, or with
\* the first ID past the stored ones
FindTextChunks ==
    /\ UNCHANGED indexOthers
    /\ g_pc = "query"
    /\ \E chunk_id \in 0..Len(all_vectors) :
          found' = <<[chunk_id |-> chunk_id,
                      result |-> find_text_chunks(chunk_id, global_indexing,
                                                  chunked_dicts)]>>
    /\ UNCHANGED <<chunked_dicts, vectorized_dicts, to_vectorize,
                   vectorized_filenames, all_vectors, all_sources,
                   global_indexing, g_i, g_pc>>

IndexNext ==
    \/ VectorizeAndStore
    \/ ListBlobs
    \/ IndexDocument
    \/ IndexDone
    \/ FindTextChunks

SpecIndex == IndexInit /\ [][IndexNext]_vars

\* ---- claims about the indexing loop and find_text_chunks ----

\* the number of vectors of the i-th listed document
CountOf(i) == Len(BlobData(vectorized_dicts, vectorized_filenames[i]))

RECURSIVE SumCounts(_)
SumCounts(i) == IF i = 0 THEN 0 ELSE SumCounts(i - 1) + CountOf(i)

InRange(entry, g) == entry.value.start <= g /\ g <= entry.value.end

\* C5: the index built by one pass is start_0 = 0, start_(i+1) = end_i + 1,
\* end_i = start_i + n_i - 1, len_i = n_i, the lens sum to the number of
\* vectors appended, the ranges partition [0, total-1], counts [3,5,2] give
\* [0,2], [3,7], [8,9], and the entries are a function of the ordered input
C5_IndexRanges ==
    g_pc \in {"index", "query"} =>
        LET n == Len(global_indexing)
            total == Len(all_vectors)
        IN  /\ n = g_i - 1
            /\ \A i \in 1..n :
                  LET e == global_indexing[i]
                  IN  /\ e.key = Stem(vectorized_filenames[i])
                      /\ e.value.len = CountOf(i)
                      /\ e.value.start = SumCounts(i - 1)
                      /\ e.value.end = e.value.start + CountOf(i) - 1
                      /\ i = 1 => e.value.start = 0
                      /\ i < n => global_indexing[i + 1].value.start = e.value.end + 1
            /\ total = SumCounts(n)
            /\ Len(all_sources) = total
            /\ \A g \in 0..(total - 1) :
                  Cardinality({i \in 1..n : InRange(global_indexing[i], g)}) = 1
            /\ \A i \in 1..n : \A g \in {-1, total} : ~InRange(global_indexing[i], g)
            /\ (g_pc = "query" /\ n = 3 /\ CountOf(1) = 3 /\ CountOf(2) = 5
                    /\ CountOf(3) = 2) =>
                  /\ total = 10
                  /\ [i \in 1..3 |-> <<global_indexing[i].value.start,
                                       global_indexing[i].value.end>>]
                        = <<<<0, 2>>, <<3, 7>>, <<8, 9>>>>

\* a finished pass over documents with 3, 5 and 2 vectors
C5_Witness ==
    /\ g_pc = "query"
    /\ Len(global_indexing) = 3
    /\ [i \in 1..3 |-> global_indexing[i].value.len] = <<3, 5, 2>>

\* C4: for every stored global ID g, find_text_chunks(g) returns the chunk
\* whose vector was stored under ID g
C4_RoundTrip ==
    \A k \in 1..Len(found) :
        LET g == found[k].chunk_id
            result == found[k].result
        IN  g < Len(all_vectors) =>
               /\ result # None
               /\ pad_vector(Vectorize(result[1].text), ExpectedDim)
                     = all_vectors[g + 1]

\* =========================================================================
\* store_vectors
\* =========================================================================

chunk_size == 5000

\* the numbers of global vectors: up to MaxBatches full batches and a
\* remainder
VectorTotals ==
    {b * chunk_size + r : b \in 0..MaxBatches, r \in 0..MaxRemainder}

\* s[start:end] for 0-based bounds 0 <= start <= end
Slice(s, start, end) == SubSeq(s, Min(start, Len(s)) + 1, Min(end, Len(s)))

\* list(range(start_idx, end_idx))
IdRange(start_idx, end_idx) ==
    [j \in 1..(end_idx - start_idx) |-> start_idx + j - 1]

num_chunks ==
    Len(s_vectors) \div chunk_size
        + (IF Len(s_vectors) % chunk_size # 0 THEN 1 ELSE 0)

\* store_vectors is called with all_vectors and all_sources, which the
\* indexing loop keeps at the same length; the vector and the source at
\* position g are tagged with g
StoreInit ==
    /\ FilterIdle /\ ChunkIdle /\ IndexIdle /\ MainIdle /\ SegmentIdle /\ PadIdle
    /\ \E n \in VectorTotals :
          /\ s_vectors = [k \in 1..n |-> <<"vector", k - 1>>]
          /\ s_sources = [k \in 1..n |-> <<"source", k - 1>>]
    /\ inserted = <<>>
    /\ s_i = 0
    /\ s_pc = "insert"

\* lines 92-95: one collection.insert call
StoreInsert ==
    /\ UNCHANGED storeOthers
    /\ s_pc = "insert"
    /\ s_i < num_chunks
    /\ LET start_idx == s_i * chunk_size
           end_idx == (s_i + 1) * chunk_size
           data_chunk == <<IdRange(start_idx, end_idx),
                           Slice(s_vectors, start_idx, end_idx),
                           Slice(s_sources, start_idx, end_idx)>>
       IN  inserted' = Append(inserted, data_chunk)
    /\ s_i' = s_i + 1
    /\ UNCHANGED <<s_vectors, s_sources, s_pc>>

\* lines 97-101: the loop has ended; flush, build the index and load
StoreFlush ==
    /\ UNCHANGED storeOthers
    /\ s_pc = "insert"
    /\ s_i >= num_chunks
    /\ s_pc' = "done"
    /\ UNCHANGED <<s_vectors, s_sources, inserted, s_i>>

StoreNext ==
    \/ StoreInsert
    \/ StoreFlush

SpecStore == StoreInit /\ [][StoreNext]_vars

\* ---- claims about store_vectors ----

\* C9: in every insert call the ID list, the vector list and the source
\* list have the same length and position j carries the vector and the
\* source of global position ids[j]; after the last batch the inserted
\* primary keys are exactly 0..N-1, each once
C9_BatchesAligned ==
    /\ \A b \in 1..Len(inserted) :
          LET ids == inserted[b][1]
              vecs == inserted[b][2]
              srcs == inserted[b][3]
          IN  /\ Len(ids) = Len(vecs)
              /\ Len(ids) = Len(srcs)
              /\ \A j \in 1..Len(ids) :
                    /\ vecs[j] = <<"vector", ids[j]>>
                    /\ srcs[j] = <<"source", ids[j]>>
    /\ s_pc = "done" =>
          /\ UNION {Range(inserted[b][1]) : b \in 1..Len(inserted)}
                = 0..(Len(s_vectors) - 1)
          /\ \A b, c \in 1..Len(inserted) :
                b # c => Range(inserted[b][1]) \cap Range(inserted[c][1]) = {}

\* =========================================================================
\* the message loop of main.py and the pipeline stages it calls
\* =========================================================================

\* the entities the queue names and the files the entities API lists for them
Entities == {"p1", "p2"}

FilesOf(entity) ==
    IF entity = "p1" THEN <<<<"f1", "pdf">>, <<"f2", "pdf">>>>
    ELSE <<<<"f3", "pdf">>>>

FileStems == UNION {{Stem(f) : f \in Range(FilesOf(e))} : e \in Entities}

\* upload_blob: the blob is written and True returned, or the exception is
\* caught and False returned with the container unchanged
upload_blob(container, file_name, ok) ==
    [written |-> [container EXCEPT ![file_name] = IF ok THEN "fresh" ELSE @],
     returned |-> ok, raised |-> FALSE]

\* the two collection names of lines 82-87
CollectionNames == {"vector_collection_politics", "vector_collection_politics_tmp"}

\* what earlier runs left behind: nothing, or the settings, the global index
\* and the current collection of the previous pass, and possibly the other
\* collection from the pass before
PassInit ==
    \/ /\ settings_container =
             [f \in {"settings.json", "global_indexing.json"} |-> "absent"]
       /\ previous_collection = ""
       /\ collections = [c \in CollectionNames |-> "absent"]
    \/ \E current \in CollectionNames : \E other \in {"absent", "older"} :
          /\ settings_container =
                [f \in {"settings.json", "global_indexing.json"} |-> "stale"]
          /\ previous_collection = current
          /\ collections =
                [c \in CollectionNames |-> IF c = current THEN "stale" ELSE other]

MainInit ==
    /\ FilterIdle /\ ChunkIdle /\ IndexIdle /\ StoreIdle /\ SegmentIdle /\ PadIdle
    /\ queue \in UNION {[1..n -> Entities] : n \in 1..MaxMessages}
    /\ document = None
    /\ raw_pds_filenames = <<>>
    /\ processed_documents = <<>>
    /\ m_pc = "receive"
    /\ \E earlier \in {"absent", "stale"} :
          /\ extracted_blobs = [f \in FileStems |-> earlier]
          /\ chunked_blobs = [f \in FileStems |-> earlier]
          /\ vectorized_blobs = [f \in FileStems |-> earlier]
    /\ m_failed = FALSE
    /\ processed_failed = <<>>
    /\ m_status = ""
    /\ processed_from = <<>>
    /\ collection_name = ""
    /\ patched = <<>>
    /\ PassInit

\* lines 69-73: the except branch, then delete_message
Caught ==
    /\ queue' = Tail(queue)
    /\ raw_pds_filenames' = <<>>
    /\ m_pc' = "receive"

\* lines 40-42: a message whose content is already processed is deleted
ReceiveDuplicate ==
    /\ UNCHANGED mainOthers
    /\ UNCHANGED <<m_status, processed_from, tailVars>>
    /\ m_pc = "receive"
    /\ queue # <<>>
    /\ Head(queue) \in Range(processed_documents)
    /\ queue' = Tail(queue)
    /\ UNCHANGED <<document, raw_pds_filenames, processed_documents, m_pc,
                   extracted_blobs, chunked_blobs, vectorized_blobs, m_failed,
                   processed_failed>>

\* lines 44-54: the metadata request and the file list
FetchMetadata ==
    /\ UNCHANGED mainOthers
    /\ UNCHANGED tailVars
    /\ m_pc = "receive"
    /\ queue # <<>>
    /\ Head(queue) \notin Range(processed_documents)
    /\ \E response \in {"200", "404", "raised"} :
          LET fetched == IF response = "200" THEN Some(Head(queue)) ELSE document
          IN  /\ document' = fetched
              /\ m_status' = response
              /\ IF response = "raised" \/ fetched = None
                    THEN Caught
                    ELSE /\ raw_pds_filenames' = FilesOf(fetched[1])
                         /\ m_pc' = IF FilesOf(fetched[1]) = <<>>
                                       THEN "finish" ELSE "extract"
                         /\ queue' = queue
    /\ m_failed' = FALSE
    /\ UNCHANGED <<processed_documents, extracted_blobs, chunked_blobs,
                   vectorized_blobs, processed_failed, processed_from>>

\* line 61: extract_and_preprocess_pdf: the download of the PDF may raise;
\* the result of put_extracted_dict is dropped
ExtractFile ==
    /\ UNCHANGED mainOthers
    /\ UNCHANGED <<m_status, processed_from, tailVars>>
    /\ m_pc = "extract"
    /\ LET file_name == Stem(Head(raw_pds_filenames))
       IN  \E outcome \in {"stored", "download raised", "upload failed"} :
              LET put == upload_blob(extracted_blobs, file_name, outcome = "stored")
              IN  IF outcome = "download raised" \/ put.raised
                     THEN /\ Caught
                          /\ UNCHANGED <<extracted_blobs, m_failed>>
                     ELSE /\ extracted_blobs' = put.written
                          /\ m_failed' = (m_failed \/ ~put.returned)
                          /\ m_pc' = "chunk"
                          /\ UNCHANGED <<queue, raw_pds_filenames>>
    /\ UNCHANGED <<document, processed_documents, chunked_blobs,
                   vectorized_blobs, processed_failed>>

\* line 62: chunk_and_save: get_extracted_dict raises when the blob is
\* absent; the result of put_chunked_dict is dropped
ChunkFile ==
    /\ UNCHANGED mainOthers
    /\ UNCHANGED <<m_status, processed_from, tailVars>>
    /\ m_pc = "chunk"
    /\ LET file_name == Stem(Head(raw_pds_filenames))
       IN  \E ok \in BOOLEAN :
              LET put == upload_blob(chunked_blobs, file_name, ok)
              IN  IF extracted_blobs[file_name] = "absent" \/ put.raised
                     THEN /\ Caught
                          /\ UNCHANGED <<chunked_blobs, m_failed>>
                     ELSE /\ chunked_blobs' = put.written
                          /\ m_failed' = (m_failed \/ ~put.returned)
                          /\ m_pc' = "vectorize"
                          /\ UNCHANGED <<queue, raw_pds_filenames>>
    /\ UNCHANGED <<document, processed_documents, extracted_blobs,
                   vectorized_blobs, processed_failed>>

\* line 63: vectorize_and_store: get_chunked_dict raises when the blob is
\* absent, an embedding call may raise, and the result of
\* put_vectorized_dict is dropped; then the next file, or the end of the
\* inner loop
VectorizeFile ==
    /\ UNCHANGED mainOthers
    /\ UNCHANGED <<m_status, processed_from, tailVars>>
    /\ m_pc = "vectorize"
    /\ LET file_name == Stem(Head(raw_pds_filenames))
       IN  \E outcome \in {"stored", "embedding raised", "upload failed"} :
              LET put == upload_blob(vectorized_blobs, file_name, outcome = "stored")
              IN  IF \/ chunked_blobs[file_name] = "absent"
                     \/ outcome = "embedding raised"
                     \/ put.raised
                     THEN /\ Caught
                          /\ UNCHANGED <<vectorized_blobs, m_failed>>
                     ELSE /\ vectorized_blobs' = put.written
                          /\ m_failed' = (m_failed \/ ~put.returned)
                          /\ raw_pds_filenames' = Tail(raw_pds_filenames)
                          /\ m_pc' = IF Tail(raw_pds_filenames) = <<>>
                                        THEN "finish" ELSE "extract"
                          /\ queue' = queue
    /\ UNCHANGED <<document, processed_documents, extracted_blobs,
                   chunked_blobs, processed_failed>>

\* lines 65-73: the document is recorded as processed, the message deleted
FinishMessage ==
    /\ UNCHANGED mainOthers
    /\ UNCHANGED tailVars
    /\ m_pc = "finish"
    /\ processed_documents' = Append(processed_documents, Head(queue))
    /\ processed_failed' = Append(processed_failed, m_failed)
    /\ processed_from' = Append(processed_from,
                                 [status |-> m_status, files_of |-> document[1]])
    /\ UNCHANGED m_status
    /\ queue' = Tail(queue)
    /\ m_pc' = "receive"
    /\ UNCHANGED <<document, raw_pds_filenames, extracted_blobs, chunked_blobs,
                   vectorized_blobs, m_failed>>

\* lines 75-77: the queue is drained
MessagesDone ==
    /\ UNCHANGED mainOthers
    /\ UNCHANGED <<m_status, processed_from, tailVars>>
    /\ m_pc = "receive"
    /\ queue = <<>>
    /\ m_pc' = IF Len(processed_documents) = 0 THEN "exit" ELSE "indexing"
    /\ UNCHANGED <<queue, document, raw_pds_filenames, processed_documents,
                   extracted_blobs, chunked_blobs, vectorized_blobs, m_failed,
                   processed_failed>>

\* the collection settings.json names as current_collection
CurrentCollection ==
    IF settings_container["settings.json"] = "fresh" THEN Some(collection_name)
    ELSE IF settings_container["settings.json"] = "stale"
            THEN Some(previous_collection)
    ELSE None

\* lines 79-87: the other collection than the current one; the fallback when
\* the download or the parsing of settings.json raises
SelectCollection ==
    /\ UNCHANGED mainOthers
    /\ m_pc = "indexing"
    /\ \E outcome \in {"read", "raised"} :
          /\ outcome = "read" => CurrentCollection # None
          /\ collection_name' =
                IF outcome = "read"
                   THEN IF CurrentCollection[1] = "vector_collection_politics"
                           THEN "vector_collection_politics_tmp"
                           ELSE "vector_collection_politics"
                   ELSE "vector_collection_politics"
    /\ m_pc' = "build"
    /\ UNCHANGED <<queue, document, raw_pds_filenames, processed_documents,
                   extracted_blobs, chunked_blobs, vectorized_blobs, m_failed,
                   processed_failed, m_status, processed_from,
                   settings_container, previous_collection, collections, patched>>

\* lines 89-107: all_vectors, all_sources and global_indexing are built from
\* the vectorized blobs (the loop itself is IndexDocument); a blob read that
\* raises ends the script
BuildIndex ==
    /\ UNCHANGED mainOthers
    /\ m_pc = "build"
    /\ \E outcome \in {"built", "raised"} :
          m_pc' = IF outcome = "built" THEN "drop" ELSE "aborted"
    /\ UNCHANGED <<queue, document, raw_pds_filenames, processed_documents,
                   extracted_blobs, chunked_blobs, vectorized_blobs, m_failed,
                   processed_failed, m_status, processed_from, tailVars>>

\* lines 111-112: the target collection is dropped when it exists
DropCollection ==
    /\ UNCHANGED mainOthers
    /\ m_pc = "drop"
    /\ collections' =
          IF collections[collection_name] # "absent"
             THEN [collections EXCEPT ![collection_name] = "absent"]
             ELSE collections
    /\ m_pc' = "store"
    /\ UNCHANGED <<queue, document, raw_pds_filenames, processed_documents,
                   extracted_blobs, chunked_blobs, vectorized_blobs, m_failed,
                   processed_failed, m_status, processed_from, collection_name,
                   settings_container, previous_collection, patched>>

\* line 118: store_vectors creates the collection and fills it with
\* all_vectors; a vector-store call that raises ends the script
StoreVectors ==
    /\ UNCHANGED mainOthers
    /\ m_pc = "store"
    /\ \E outcome \in {"stored", "raised"} :
          /\ collections' =
                [collections EXCEPT ![collection_name] =
                    IF outcome = "stored" THEN "fresh" ELSE "partial"]
          /\ m_pc' = IF outcome = "stored" THEN "settings" ELSE "aborted"
    /\ UNCHANGED <<queue, document, raw_pds_filenames, processed_documents,
                   extracted_blobs, chunked_blobs, vectorized_blobs, m_failed,
                   processed_failed, m_status, processed_from, collection_name,
                   settings_container, previous_collection, patched>>

\* lines 120-122: settings.json is uploaded; the result is dropped
UploadSettings ==
    /\ UNCHANGED mainOthers
    /\ m_pc = "settings"
    /\ \E ok \in BOOLEAN :
          settings_container' =
             upload_blob(settings_container, "settings.json", ok).written
    /\ m_pc' = "global_indexing"
    /\ UNCHANGED <<queue, document, raw_pds_filenames, processed_documents,
                   extracted_blobs, chunked_blobs, vectorized_blobs, m_failed,
                   processed_failed, m_status, processed_from, collection_name,
                   previous_collection, collections, patched>>

\* line 123: global_indexing.json is uploaded; the result is dropped
UploadGlobalIndexing ==
    /\ UNCHANGED mainOthers
    /\ m_pc = "global_indexing"
    /\ \E ok \in BOOLEAN :
          settings_container' =
             upload_blob(settings_container, "global_indexing.json", ok).written
    /\ m_pc' = "patch"
    /\ UNCHANGED <<queue, document, raw_pds_filenames, processed_documents,
                   extracted_blobs, chunked_blobs, vectorized_blobs, m_failed,
                   processed_failed, m_status, processed_from, collection_name,
                   previous_collection, collections, patched>>

\* lines 125-126: the next processed document is patched to "available"; a
\* request that raises ends the script
PatchState ==
    /\ UNCHANGED mainOthers
    /\ m_pc = "patch"
    /\ Len(patched) < Len(processed_documents)
    /\ \E outcome \in {"sent", "raised"} :
          IF outcome = "sent"
             THEN /\ patched' =
                        Append(patched, processed_documents[Len(patched) + 1])
                  /\ UNCHANGED m_pc
             ELSE /\ m_pc' = "aborted"
                  /\ UNCHANGED patched
    /\ UNCHANGED <<queue, document, raw_pds_filenames, processed_documents,
                   extracted_blobs, chunked_blobs, vectorized_blobs, m_failed,
                   processed_failed, m_status, processed_from, collection_name,
                   settings_container, previous_collection, collections>>

\* the end of the script
PassDone ==
    /\ UNCHANGED mainOthers
    /\ m_pc = "patch"
    /\ Len(patched) = Len(processed_documents)
    /\ m_pc' = "done"
    /\ UNCHANGED <<queue, document, raw_pds_filenames, processed_documents,
                   extracted_blobs, chunked_blobs, vectorized_blobs, m_failed,
                   processed_failed, m_status, processed_from, tailVars>>

MainNext ==
    \/ ReceiveDuplicate
    \/ FetchMetadata
    \/ ExtractFile
    \/ ChunkFile
    \/ VectorizeFile
    \/ FinishMessage
    \/ MessagesDone
    \/ SelectCollection
    \/ BuildIndex
    \/ DropCollection
    \/ StoreVectors
    \/ UploadSettings
    \/ UploadGlobalIndexing
    \/ PatchState
    \/ PassDone

SpecMain == MainInit /\ [][MainNext]_vars

\* ---- claims about failures in the pipeline stages ----

\* C10: a document during whose processing an embedding call or a storage
\* put failed is never recorded as processed
C10_FailuresReachCaller ==
    \A k \in 1..Len(processed_documents) : ~processed_failed[k]

\* ---- claims about the message loop and the indexing pass ----

\* C16: a document is recorded as processed, and later patched to
\* "available", only if the metadata request of its own message returned 200
\* and the files processed for it were those of that response
C16_ProcessedOnlyOwnFiles ==
    /\ \A k \in 1..Len(processed_documents) :
          /\ processed_from[k].status = "200"
          /\ processed_from[k].files_of = processed_documents[k]
    /\ \A k \in 1..Len(patched) : patched[k] = processed_documents[k]

\* C17: the collection a pass drops and repopulates is never the one
\* settings.json names as current at that moment, and settings.json is
\* switched only after store_vectors has returned
C17_HandOff ==
    [][/\ (DropCollection \/ StoreVectors) =>
             CurrentCollection # Some(collection_name)
       /\ settings_container'["settings.json"] # settings_container["settings.json"] =>
             collections[collection_name] = "fresh"]_vars

\* C18: in no state does settings.json name the collection this pass built
\* while global_indexing.json is not the index of that collection's
\* contents (is absent, or still holds the ranges of the previous pass)
C18_IndexDescribesCurrent ==
    settings_container["settings.json"] = "fresh" =>
        settings_container["global_indexing.json"] = collections[collection_name]

\* =========================================================================
\* overlapping_chunking: the sentence segmentation of each page
\* =========================================================================

MaxPages == 2

MaxChars == 5

\* the character classes of the pattern, over the characters of the model
UpperChars == {"B"}

LowerChars == Range(Letters)

WordChars == UpperChars \cup LowerChars

\* the pattern of line 132 matches the whitespace character at position i:
\*   (?<!\w\.\w.)(?<![A-Z][a-z]\.)(?<=\.|\?)(?<!\w[!?])\s
SplitsAt(doc, i) ==
    /\ doc[i] = " "
    /\ i > 1
    /\ doc[i - 1] \in {".", "?"}
    /\ ~(/\ i > 4
         /\ doc[i - 4] \in WordChars
         /\ doc[i - 3] = "."
         /\ doc[i - 2] \in WordChars)
    /\ ~(/\ i > 3
         /\ doc[i - 3] \in UpperChars
         /\ doc[i - 2] \in LowerChars
         /\ doc[i - 1] = ".")
    /\ ~(/\ i > 2
         /\ doc[i - 2] \in WordChars
         /\ doc[i - 1] \in {"!", "?"})

\* re.split(pattern, doc): the pieces between the matches, one more than
\* there are matches
re_split(doc) ==
    LET cuts == {i \in 1..Len(doc) : SplitsAt(doc, i)}
        cut(k) == CHOOSE i \in cuts : Cardinality({j \in cuts : j < i}) = k - 1
        n == Cardinality(cuts)
    IN  [k \in 1..(n + 1) |->
            SubSeq(doc, IF k = 1 THEN 1 ELSE cut(k - 1) + 1,
                        IF k = n + 1 THEN Len(doc) ELSE cut(k) - 1)]

\* lines 132-141: the sentence records of one page
PageSentences(doc, page_num) ==
    LET split == re_split(doc)
        sentences_page == Len(split)
    IN  [sentence_num \in 1..Len(split) |->
            [text |-> Strip(split[sentence_num]),
             page |-> page_num,
             sentence_num |-> sentence_num,
             sentences_page |-> sentences_page]]

\* ---- the documents the model draws ----

PageChars == {"a", "B", ".", "?", " "}

Texts(n) == UNION {[1..m -> PageChars] : m \in 0..n}

\* a text cut into pages at the given positions
CutPages(text, at) ==
    LET lo(k) == IF k = 1 THEN 0
                 ELSE CHOOSE b \in at : Cardinality({j \in at : j < b}) = k - 2
        hi(k) == IF k = Cardinality(at) + 1 THEN Len(text)
                 ELSE CHOOSE b \in at : Cardinality({j \in at : j < b}) = k - 1
    IN  [k \in 1..(Cardinality(at) + 1) |->
            [text |-> SubSeq(text, lo(k) + 1, hi(k)), page |-> k]]

\* the cut positions of a text that give at most MaxPages pages
Cuts(text) == {c \in SUBSET (0..Len(text)) : Cardinality(c) < MaxPages}

\* the word counts of two one-page documents long enough for chunk_sentences
\* to emit
LongPageWords == {170, 260}

SegmentInit ==
    /\ FilterIdle /\ ChunkIdle /\ IndexIdle /\ StoreIdle /\ MainIdle /\ PadIdle
    /\ \/ \E text \in Texts(MaxChars) : \E at \in Cuts(text) :
             pages = CutPages(text, at)
       \/ \E w \in LongPageWords :
             pages = <<[text |-> WordsText("a", w), page |-> 1]>>
    /\ all_sentences = <<>>
    /\ p_i = 1
    /\ p_pc = "segment"

\* lines 131-141: one iteration of the loop over the pages
SegmentPage ==
    /\ UNCHANGED <<filterVars, chunkVars, indexVars, storeVars, mainVars, padVars>>
    /\ p_pc = "segment"
    /\ p_i <= Len(pages)
    /\ all_sentences' =
          all_sentences \o PageSentences(pages[p_i].text, pages[p_i].page)
    /\ p_i' = p_i + 1
    /\ UNCHANGED <<pages, p_pc>>

\* line 143: chunk_sentences is called with the collected sentences
CallChunkSentences ==
    /\ UNCHANGED <<filterVars, indexVars, storeVars, mainVars, padVars>>
    /\ p_pc = "segment"
    /\ p_i > Len(pages)
    /\ p_pc' = "chunking"
    /\ sentences' = all_sentences
    /\ c_i' = 1
    /\ c_pc' = "loop"
    /\ UNCHANGED <<chunks, current_chunk, token_count, chunks_dict, emitted>>
    /\ UNCHANGED <<pages, all_sentences, p_i>>

SegmentNext ==
    \/ SegmentPage
    \/ CallChunkSentences
    \/ ChunkAccumulate
    \/ ChunkEmit
    \/ ChunkSplit
    \/ ChunkReturn

SpecSegment == SegmentInit /\ [][SegmentNext]_vars

\* ---- claims about the segmentation ----

OnPage(k) == SelectSeq(all_sentences, LAMBDA s : s.page = pages[k].page)

HasTerminator(text) == \E i \in 1..Len(text) : text[i] \in {".", "?"}

\* C11: once the pages are segmented, an empty page has no sentence in the
\* stream, a non-empty page without a terminator has exactly one sentence
\* spanning the page, and the sentences of every page are numbered 1..n in
\* order and all carry sentences_page = n
C11_Segmentation ==
    p_pc = "chunking" =>
        \A k \in 1..Len(pages) :
            LET on_page == OnPage(k)
            IN  /\ pages[k].text = <<>> => on_page = <<>>
                /\ (pages[k].text # <<>> /\ ~HasTerminator(pages[k].text)) =>
                      /\ Len(on_page) = 1
                      /\ on_page[1].text = Strip(pages[k].text)
                /\ \A j \in 1..Len(on_page) :
                      /\ on_page[j].sentence_num = j
                      /\ on_page[j].sentences_page = Len(on_page)

\* =========================================================================
\* pad_vector
\* =========================================================================

MaxVectorLen == 4

MaxDim == 5

\* the components an embedding can have
Components == {"0.0", "1.0", "2.0"}

PadInit ==
    /\ FilterIdle /\ ChunkIdle /\ IndexIdle /\ StoreIdle /\ MainIdle /\ SegmentIdle
    /\ v_input \in UNION {[1..n -> Components] : n \in 0..MaxVectorLen}
    /\ vector = v_input
    /\ target_dim \in 0..MaxDim
    /\ padded = <<>>
    /\ v_pc = "call"

\* lines 83-86: the list is extended in place and returned
PadVector ==
    /\ UNCHANGED <<filterVars, chunkVars, indexVars, storeVars, mainVars, segmentVars>>
    /\ v_pc = "call"
    /\ vector' = pad_vector(vector, target_dim)
    /\ padded' = vector'
    /\ v_pc' = "returned"
    /\ UNCHANGED <<v_input, target_dim>>

PadNext == PadVector

SpecPad == PadInit /\ [][PadNext]_vars

\* ---- claims about pad_vector ----

Zeros(n) == [k \in 1..n |-> "0.0"]

\* C12: pad_vector(v, d) is v followed by d - len(v) zeros, of length exactly
\* d, when len(v) < d, and v itself, not truncated, when len(v) >= d; its
\* length is max(len(v), d) and v is its prefix
C12_PadVector ==
    v_pc = "returned" =>
        /\ Len(v_input) < target_dim =>
              /\ padded = v_input \o Zeros(target_dim - Len(v_input))
              /\ Len(padded) = target_dim
        /\ Len(v_input) >= target_dim => padded = v_input
        /\ Len(padded) = Max(Len(v_input), target_dim)
        /\ SubSeq(padded, 1, Len(v_input)) = v_input

\* both documented examples have been run: pad([1.0, 2.0], 5) and
\* pad([1.0, 2.0, 2.0], 2)
C12_Witness ==
    /\ v_pc = "returned"
    /\ \/ /\ v_input = <<"1.0", "2.0">> /\ target_dim = 5
          /\ padded = <<"1.0", "2.0", "0.0", "0.0", "0.0">>
       \/ /\ v_input = <<"1.0", "2.0", "2.0">> /\ target_dim = 2
          /\ padded = <<"1.0", "2.0", "2.0">>

====
